---- MODULE Spec2Model ----
(***************************************************************************)
(* Model of the templates-require-inputs rule                              *)
(* (src/src/templatesRequireInputsRule.ts): the ComponentTracker, the tag  *)
(* registry TemplateRequireInputTracker, the template visitor and the      *)
(* InputMetadataWalker that buffers the inputs of a class and flushes them *)
(* as a component declaration.                                             *)
(*                                                                         *)
(* Strings of the program are strings here, except tag names, which are    *)
(* tuples of characters so that the regular expression of the skip list    *)
(* can be evaluated.  A message is the tuple of the parts the template     *)
(* literal concatenates.  The backtick of the messages is written as an    *)
(* apostrophe.                                                             *)
(***************************************************************************)
EXTENDS Integers, Sequences, FiniteSets, TLC

VARIABLES
  source,         \* the family of source files the run walks (its input domains)
  options,        \* the rule options (this.getOptions())
  status,         \* "running", or "aborted" once an error left the walk
  file,           \* index of the source file being walked, 0 before the first
  phase,          \* position of the walk inside the file
  componentName,  \* InputMetadataWalker.componentName of the walker of each file
  inputs,         \* InputMetadataWalker.inputs of the current walker
  tags,           \* TemplateRequireInputTracker.tags
  ruleFailures,   \* failures added to the walker (addFailure / addFailureAtNode)
  nClasses,       \* class declarations visited so far
  usages,         \* history: the element records built so far, by id
  evals,          \* history: how often each element record went through process
  declared,       \* history: the addComponent calls made, in order
  returned,       \* history: the failures the tracker returned, in order
  last,           \* history: the last handler, the tracker call it made, its outcome
  classNames      \* history: per class declaration visited, <<selector>> of a
                  \* component, <<>> of a class that is not a component

vars == <<source, options, status, file, phase, componentName, inputs, tags,
          ruleFailures, nClasses, usages, evals, declared, returned, last,
          classNames>>

(***************************************************************************)
(* Bounds and input domains                                                *)
(***************************************************************************)
MaxClasses == 2
MaxUsages == 2

Foobar == <<"f", "o", "o", "b", "a", "r">>
NgDash == <<"n", "g", "-">>
Div == <<"d", "i", "v">>
NgContent == <<"n", "g", "-", "c">>
UndefinedName == <<"u", "n", "d", "e", "f", "i", "n", "e", "d">>

FileNames == <<"a.ts", "b.ts">>
InputNames == <<"foo", "bar">>

TextNone == [required |-> FALSE, requiredIf |-> FALSE, expr |-> <<>>]
TextRequired == [required |-> TRUE, requiredIf |-> FALSE, expr |-> <<>>]
TextRequiredIf(e) == [required |-> TRUE, requiredIf |-> TRUE, expr |-> e]
NoArgs == <<>>
AliasArgs == <<[kind |-> "StringLiteral", text |-> "fu"]>>
IdentifierArgs == <<[kind |-> "Identifier", text |-> "fu"]>>

\* Families of source files.  A run walks files of one family: the selectors
\* of its component classes, whether it has classes that are not components,
\* the elements of its templates and the input members of its classes
\* (decoratorTexts gives the decorator texts of the first and of the second
\* input member of a class) and the number of its class declarations.
SourceRegistry ==
  [options |-> {<<"tagged">>}, classes |-> MaxClasses, files |-> 1, members |-> 1,
   selectors |-> {Foobar, Div}, plainClasses |-> {FALSE},
   elementNames |-> {Foobar, NgDash, Div, NgContent},
   elementInputs |-> {<<>>, <<"foo">>}, elementAttrs |-> {<<>>}, lines |-> {0},
   decoratorArgs |-> {NoArgs},
   decoratorTexts |-> <<{TextNone, TextRequired}, {}>>,
   initializers |-> {FALSE}]

SourceMessages ==
  [options |-> {<<"tagged">>}, classes |-> MaxClasses, files |-> 2, members |-> 1,
   selectors |-> {Foobar, NgDash}, plainClasses |-> {},
   elementNames |-> {Foobar},
   elementInputs |-> {<<>>, <<"foo">>}, elementAttrs |-> {<<>>}, lines |-> {0, 1},
   decoratorArgs |-> {NoArgs},
   decoratorTexts |-> <<{TextRequired, TextRequiredIf(<<"foo", "||", "nope">>),
                         TextRequiredIf(<<"!">>)}, {}>>,
   initializers |-> {FALSE}]

SourceAliases ==
  [options |-> {<<"tagged">>}, classes |-> MaxClasses, files |-> 1, members |-> 1,
   selectors |-> {Foobar}, plainClasses |-> {},
   elementNames |-> {Foobar},
   elementInputs |-> {<<>>, <<"foo">>, <<"fu">>}, elementAttrs |-> {<<>>}, lines |-> {0},
   decoratorArgs |-> {NoArgs, AliasArgs, IdentifierArgs},
   decoratorTexts |-> <<{TextRequired, TextRequiredIf(<<"!", "foo">>)}, {}>>,
   initializers |-> {FALSE}]

SourceExpressions ==
  [options |-> {<<"tagged">>}, classes |-> MaxClasses, files |-> 1, members |-> 2,
   selectors |-> {Foobar}, plainClasses |-> {},
   elementNames |-> {Foobar},
   elementInputs |-> {<<>>, <<"foo">>}, elementAttrs |-> {<<>>, <<"bar">>}, lines |-> {0},
   decoratorArgs |-> {NoArgs},
   decoratorTexts |-> <<{TextNone, TextRequired},
                        {TextNone, TextRequired, TextRequiredIf(<<"!", "foo">>)}>>,
   initializers |-> {FALSE}]

SourceModes ==
  [options |-> {<<"tagged">>, <<"all-without-defaults">>, <<>>}, classes |-> MaxClasses, files |-> 1, members |-> 2,
   selectors |-> {Foobar}, plainClasses |-> {},
   elementNames |-> {Foobar},
   elementInputs |-> {<<>>}, elementAttrs |-> {<<>>}, lines |-> {0},
   decoratorArgs |-> {NoArgs},
   decoratorTexts |-> <<{TextNone, TextRequired}, {TextNone, TextRequired}>>,
   initializers |-> {FALSE, TRUE}]

\* one more class: a selector declared twice, used by a third class
SourceRedeclared ==
  [options |-> {<<"tagged">>}, classes |-> MaxClasses + 1, files |-> 1, members |-> 1,
   selectors |-> {Foobar}, plainClasses |-> {FALSE},
   elementNames |-> {Foobar},
   elementInputs |-> {<<>>}, elementAttrs |-> {<<>>}, lines |-> {0},
   decoratorArgs |-> {NoArgs},
   decoratorTexts |-> <<{TextNone, TextRequired}, {}>>,
   initializers |-> {FALSE}]

Sources ==
  {SourceRegistry, SourceMessages, SourceAliases, SourceExpressions, SourceModes,
   SourceRedeclared}

(***************************************************************************)
(* Helpers on arrays                                                       *)
(***************************************************************************)
Includes(seq, x) == \E k \in 1..Len(seq) : seq[k] = x

\* Array.prototype.indexOf, 1-based, 0 when absent
IndexOf(seq, x) ==
  IF Includes(seq, x) THEN CHOOSE k \in 1..Len(seq) :
       seq[k] = x /\ \A j \in 1..(k - 1) : seq[j] # x
  ELSE 0

RECURSIVE Flatten(_)
Flatten(seqs) == IF seqs = <<>> THEN <<>> ELSE Head(seqs) \o Flatten(Tail(seqs))

(***************************************************************************)
(* getMode                                                                 *)
(***************************************************************************)
ModeTagged == 0
ModeAll == 1

getMode(opts) ==
  IF Len(opts) > 0 /\ opts[1] = "all-without-defaults" THEN ModeAll ELSE ModeTagged

(***************************************************************************)
(* new Function(...properties, `return ${match}`): the expressions over    *)
(* identifiers, "!", "&&" and "||", parsed by recursive descent.  An       *)
(* operator whose name ends in a second word takes the result of a call    *)
(* as its argument and continues the operator it is named after.           *)
(***************************************************************************)
Operators == {"!", "&&", "||"}
ParseFail == [ok |-> FALSE, ast |-> <<>>, rest |-> <<>>]

RECURSIVE ParseUnary(_), ParseAnd(_), ParseOr(_)

ParseNegation(r) ==
  IF r.ok THEN [ok |-> TRUE, ast |-> <<"!", r.ast>>, rest |-> r.rest] ELSE ParseFail

ParseUnary(toks) ==
  IF toks = <<>> THEN ParseFail
  ELSE IF Head(toks) = "!" THEN ParseNegation(ParseUnary(Tail(toks)))
  ELSE IF Head(toks) \notin Operators
    THEN [ok |-> TRUE, ast |-> <<"id", Head(toks)>>, rest |-> Tail(toks)]
  ELSE ParseFail

ParseBinary(op, l, r) ==
  IF r.ok THEN [ok |-> TRUE, ast |-> <<op, l.ast, r.ast>>, rest |-> r.rest] ELSE ParseFail

ParseAndRest(l) ==
  IF ~l.ok THEN ParseFail
  ELSE IF l.rest # <<>> /\ Head(l.rest) = "&&"
    THEN ParseBinary("&&", l, ParseAnd(Tail(l.rest)))
  ELSE l

ParseAnd(toks) == ParseAndRest(ParseUnary(toks))

ParseOrRest(l) ==
  IF ~l.ok THEN ParseFail
  ELSE IF l.rest # <<>> /\ Head(l.rest) = "||"
    THEN ParseBinary("||", l, ParseOr(Tail(l.rest)))
  ELSE l

ParseOr(toks) == ParseOrRest(ParseAnd(toks))

\* the compiled function: its parameter names and its body, or a SyntaxError
NewFunctionParsed(params, p) ==
  IF p.ok /\ p.rest = <<>>
  THEN [threw |-> FALSE, params |-> params, ast |-> p.ast, cause |-> ""]
  ELSE [threw |-> TRUE, params |-> params, ast |-> <<>>, cause |-> "SyntaxError"]

NewFunction(params, body) == NewFunctionParsed(params, ParseOr(body))

\* fn(...args): a parameter is bound to the argument at its (last) position,
\* any other identifier is a ReferenceError; && and || short-circuit
RECURSIVE Evaluate(_, _, _)

EvaluateIdentifier(id, params, args) ==
  IF Includes(params, id)
  THEN [threw |-> FALSE, cause |-> "",
        value |-> args[CHOOSE i \in 1..Len(params) :
                         params[i] = id /\ \A j \in (i + 1)..Len(params) : params[j] # id]]
  ELSE [threw |-> TRUE, value |-> FALSE, cause |-> "ReferenceError"]

EvaluateNot(r) == IF r.threw THEN r ELSE [r EXCEPT !.value = ~r.value]

EvaluateAnd(l, right, params, args) ==
  IF l.threw \/ ~l.value THEN l ELSE Evaluate(right, params, args)

EvaluateOr(l, right, params, args) ==
  IF l.threw \/ l.value THEN l ELSE Evaluate(right, params, args)

Evaluate(ast, params, args) ==
  CASE ast[1] = "id" -> EvaluateIdentifier(ast[2], params, args)
    [] ast[1] = "!" -> EvaluateNot(Evaluate(ast[2], params, args))
    [] ast[1] = "&&" -> EvaluateAnd(Evaluate(ast[2], params, args), ast[3], params, args)
    [] ast[1] = "||" -> EvaluateOr(Evaluate(ast[2], params, args), ast[3], params, args)

CallFunction(fn, args) == Evaluate(fn.ast, fn.params, args)

(***************************************************************************)
(* The checks of a declaration (InputMetadataWalker.pushLast,              *)
(* createDefaultMatch, createCustomMatch).  A closure is the record of     *)
(* what it captured: the input, the index or the compiled function, and    *)
(* the walker (this) whose componentName the error text reads when thrown. *)
(***************************************************************************)
NoFunction == [threw |-> FALSE, params |-> <<>>, ast |-> <<>>, cause |-> ""]

NullCheck(input, walker) ==
  [kind |-> "none", i |-> 0, fn |-> NoFunction, input |-> input, walker |-> walker]

\* the Error thrown by tryExec: componentName is read when the error is built
TryExecError(names, walker, input, cause) ==
  [name |-> "Error", component |-> names[walker], input |-> input.name,
   match |-> input.match, cause |-> cause]

\* a default match that always tests the first entry of the presence vector
createDefaultMatch_FirstIndex(properties, input, walker) ==
  [threw |-> FALSE, error |-> <<>>,
   check |-> [kind |-> "default", i |-> 1,
              fn |-> NoFunction, input |-> input, walker |-> walker]]

createDefaultMatch(properties, input, walker) ==
  [threw |-> FALSE, error |-> <<>>,
   check |-> [kind |-> "default", i |-> IndexOf(properties, input.name),
              fn |-> NoFunction, input |-> input, walker |-> walker]]

createCustomMatchCompiled(fn, input, walker, names) ==
  IF fn.threw
  THEN [threw |-> TRUE, error |-> <<TryExecError(names, walker, input, fn.cause)>>,
        check |-> NullCheck(input, walker)]
  ELSE [threw |-> FALSE, error |-> <<>>,
        check |-> [kind |-> "custom", i |-> 0, fn |-> fn,
                   input |-> input, walker |-> walker]]

createCustomMatch(properties, input, walker, names) ==
  createCustomMatchCompiled(NewFunction(properties, input.match), input, walker, names)

\* one element of the checks array built by pushLast
createCheck(properties, input, walker, names) ==
  IF ~input.required
  THEN [threw |-> FALSE, error |-> <<>>, check |-> NullCheck(input, walker)]
  ELSE IF input.match # <<>>
    THEN createCustomMatch(properties, input, walker, names)
    ELSE createDefaultMatch(properties, input, walker)

\* the checker createCustomMatch returns, once fn has been called
checkerCalled(r, check, names) ==
  IF r.threw
  THEN [threw |-> TRUE, message |-> <<>>,
        error |-> <<TryExecError(names, check.walker, check.input, r.cause)>>]
  ELSE [threw |-> FALSE, error |-> <<>>,
        message |-> IF r.value
                    THEN <<"is missing input '", check.input.alias,
                           "' required when '", check.input.match, "'">>
                    ELSE <<>>]

\* a custom match that reports only inputs the usage does not supply
checker_OnlyWhenAbsent(check, args, names) ==
  IF check.kind = "default"
  THEN [threw |-> FALSE, error |-> <<>>,
        message |-> IF check.i \in 1..Len(args) /\ args[check.i]
                    THEN <<>>
                    ELSE <<"is missing required input '", check.input.alias, "'">>]
  ELSE IF args[IndexOf(check.fn.params, check.input.name)]
    THEN [threw |-> FALSE, error |-> <<>>, message |-> <<>>]
    ELSE checkerCalled(CallFunction(check.fn, args), check, names)

\* the checker returned by createDefaultMatch / createCustomMatch, applied
checker(check, args, names) ==
  IF check.kind = "default"
  THEN [threw |-> FALSE, error |-> <<>>,
        message |-> IF check.i \in 1..Len(args) /\ args[check.i]
                    THEN <<>>
                    ELSE <<"is missing required input '", check.input.alias, "'">>]
  ELSE checkerCalled(CallFunction(check.fn, args), check, names)

CallCheckResult(r, check) ==
  IF r.threw THEN [threw |-> TRUE, error |-> r.error, result |-> <<>>]
  ELSE IF r.message = <<>> THEN [threw |-> FALSE, error |-> <<>>, result |-> <<>>]
  ELSE [threw |-> FALSE, error |-> <<>>,
        result |-> <<[inputName |-> check.input.name,
                      decorator |-> check.input.node,
                      message |-> r.message]>>]

\* a check of IComponent.checks, applied: null (<<>>) or one IFailure
CallCheck(check, args, names) ==
  IF check.kind = "none"
  THEN [threw |-> FALSE, error |-> <<>>, result |-> <<>>]
  ELSE CallCheckResult(checker(check, args, names), check)

(***************************************************************************)
(* ComponentTracker                                                        *)
(***************************************************************************)
NewComponentTracker == [elementQueue |-> <<>>, component |-> <<>>]

\* the record addElement builds from an element
ElementRecord(fileName, element, id) ==
  [fileName |-> fileName, element |-> element,
   properties |-> element.inputs \o element.attrs, id |-> id]

PresenceArgs(component, tracker) ==
  [k \in 1..Len(component.properties) |->
     Includes(tracker.properties, component.properties[k])]

\* the usage-site qualifier whatever the caller
LocationQualifier_UsageSite(tracker, result, fromElement) ==
  <<" (used in ", tracker.fileName, ":", tracker.element.line, ")">>

LocationQualifier(tracker, result, fromElement) ==
  IF fromElement
  THEN <<" (declared in ", result.decorator.fileName, ":", result.decorator.pos, ")">>
  ELSE <<" (used in ", tracker.fileName, ":", tracker.element.line, ")">>

\* the callback of checks.map: null stays null, a failure gets its message
processResult(result, tracker, fromElement) ==
  IF result = <<>> THEN <<>>
  ELSE <<[result[1] EXCEPT !.message =
            <<"Component <", tracker.element.name, "> ">>
            \o result[1].message
            \o LocationQualifier(tracker, result[1], fromElement)]>>

RECURSIVE MapChecks(_, _, _, _, _)

MapChecksJoin(r, rest, tracker, fromElement) ==
  IF rest.threw THEN rest
  ELSE [threw |-> FALSE, error |-> <<>>,
        failures |-> processResult(r.result, tracker, fromElement) \o rest.failures]

MapChecksNext(r, checks, args, tracker, fromElement, names) ==
  IF r.threw THEN [threw |-> TRUE, error |-> r.error, failures |-> <<>>]
  ELSE MapChecksJoin(r, MapChecks(Tail(checks), args, tracker, fromElement, names),
                     tracker, fromElement)

MapChecks(checks, args, tracker, fromElement, names) ==
  IF checks = <<>> THEN [threw |-> FALSE, error |-> <<>>, failures |-> <<>>]
  ELSE MapChecksNext(CallCheck(Head(checks), args, names),
                     checks, args, tracker, fromElement, names)

process(component, tracker, fromElement, names) ==
  MapChecks(component.checks, PresenceArgs(component, tracker), tracker, fromElement, names)

\* ret is "list" (an array was returned), "undefined" (nothing was) or "throw";
\* records and lists are the element records that went through process and
\* what process returned for each
\* a processed usage is also put on the queue
addElementProcessed_Queued(ct, record, r) ==
  [ct |-> [ct EXCEPT !.elementQueue = Append(ct.elementQueue, record)],
   ret |-> IF r.threw THEN "throw" ELSE "list",
   failures |-> r.failures, error |-> r.error,
   records |-> <<record>>, lists |-> IF r.threw THEN <<>> ELSE <<r.failures>>]

addElementProcessed(ct, record, r) ==
  [ct |-> ct, ret |-> IF r.threw THEN "throw" ELSE "list",
   failures |-> r.failures, error |-> r.error,
   records |-> <<record>>, lists |-> IF r.threw THEN <<>> ELSE <<r.failures>>]

addElementQueued(ct, record) ==
  [ct |-> [ct EXCEPT !.elementQueue = Append(ct.elementQueue, record)],
   ret |-> "undefined", failures |-> <<>>, error |-> <<>>,
   records |-> <<>>, lists |-> <<>>]

\* addElement putting the usage at the front of the queue
ComponentTracker_addElement_Unshift(ct, fileName, element, id, names) ==
  IF ct.component # <<>>
  THEN addElementProcessed(ct, ElementRecord(fileName, element, id),
         process(ct.component[1], ElementRecord(fileName, element, id), TRUE, names))
  ELSE [ct |-> [ct EXCEPT !.elementQueue =
                  <<ElementRecord(fileName, element, id)>> \o ct.elementQueue],
        ret |-> "undefined", failures |-> <<>>, error |-> <<>>,
        records |-> <<>>, lists |-> <<>>]

ComponentTracker_addElement(ct, fileName, element, id, names) ==
  IF ct.component # <<>>
  THEN addElementProcessed(ct, ElementRecord(fileName, element, id),
         process(ct.component[1], ElementRecord(fileName, element, id), TRUE, names))
  ELSE addElementQueued(ct, ElementRecord(fileName, element, id))

\* queue.map(item => this.process(item, false)): stops at the first throw
RECURSIVE MapQueue(_, _, _)

\* the results of the queue joined last usage first
MapQueueJoin_Reversed(r, queue, rest) ==
  [threw |-> rest.threw, error |-> rest.error,
   lists |-> rest.lists \o <<r.failures>>,
   records |-> rest.records \o <<Head(queue)>>]

MapQueueJoin(r, queue, rest) ==
  [threw |-> rest.threw, error |-> rest.error,
   lists |-> <<r.failures>> \o rest.lists,
   records |-> <<Head(queue)>> \o rest.records]

MapQueueNext(r, component, queue, names) ==
  IF r.threw
  THEN [threw |-> TRUE, error |-> r.error, lists |-> <<>>, records |-> <<Head(queue)>>]
  ELSE MapQueueJoin(r, queue, MapQueue(component, Tail(queue), names))

MapQueue(component, queue, names) ==
  IF queue = <<>> THEN [threw |-> FALSE, error |-> <<>>, lists |-> <<>>, records |-> <<>>]
  ELSE MapQueueNext(process(component, Head(queue), FALSE, names), component, queue, names)

addComponentDrained(component, r) ==
  [ct |-> [elementQueue |-> <<>>, component |-> <<component>>],
   ret |-> IF r.threw THEN "throw" ELSE "list",
   failures |-> IF r.threw THEN <<>> ELSE Flatten(r.lists),
   error |-> r.error, records |-> r.records, lists |-> r.lists]

\* addComponent keeping the declaration the tracker already has
ComponentTracker_addComponent_KeepFirst(ct, component, names) ==
  IF ct.component # <<>>
  THEN [ct |-> ct, ret |-> "list", failures |-> <<>>, error |-> <<>>,
        records |-> <<>>, lists |-> <<>>]
  ELSE addComponentDrained(component, MapQueue(component, ct.elementQueue, names))

\* addComponent leaving the drained usages in the queue
ComponentTracker_addComponent_KeepQueue(ct, component, names) ==
  [addComponentDrained(component, MapQueue(component, ct.elementQueue, names))
     EXCEPT !.ct.elementQueue = ct.elementQueue]

\* addComponent dropping the queue without evaluating it
ComponentTracker_addComponent_NoDrain(ct, component, names) ==
  addComponentDrained(component, MapQueue(component, <<>>, names))

\* addComponent leaving the tracker as it was when the drain raises
ComponentTracker_addComponent_Atomic(ct, component, names) ==
  IF MapQueue(component, ct.elementQueue, names).threw
  THEN [addComponentDrained(component, MapQueue(component, ct.elementQueue, names))
          EXCEPT !.ct = ct]
  ELSE addComponentDrained(component, MapQueue(component, ct.elementQueue, names))

ComponentTracker_addComponent(ct, component, names) ==
  addComponentDrained(component, MapQueue(component, ct.elementQueue, names))

(***************************************************************************)
(* TemplateRequireInputTracker                                             *)
(***************************************************************************)
skippedLiterals ==
  << <<"d","i","v">>, <<"a">>, <<"p">>, <<"s","p","a","n">>, <<"e","m">>,
     <<"s","t","r","o","n","g">>, <<"i">>, <<"b">>, <<"u","l">>, <<"l","i">>,
     <<"o","l">>, <<"h","e","a","d","e","r">>, <<"f","o","o","t","e","r">>,
     <<"n","a","v">>, <<"m","a","i","n">>, <<"a","s","i","d","e">>,
     <<"f","o","o","t","e","r">>, <<"b","r">>, <<"i","m","g">>,
     <<"t","a","b","l","e">>, <<"t","h","e","a","d">>, <<"t","b","o","d","y">>,
     <<"t","d">>, <<"t","h">>, <<"t","r">> >>

\* /^ng\-.+/.test(name)
skippedPattern(name) == Len(name) >= 4 /\ SubSeq(name, 1, 3) = <<"n", "g", "-">>

\* the skip list without its first literal
skippedElements_OffByOne(name) == IndexOf(skippedLiterals, name) > 1 \/ skippedPattern(name)

skippedElements(name) == IndexOf(skippedLiterals, name) > 0 \/ skippedPattern(name)

\* getByName making a new tracker on every call
getByName_AlwaysNew(t, name) ==
  IF name \in DOMAIN t
  THEN [t EXCEPT ![name] = NewComponentTracker]
  ELSE t @@ (name :> NewComponentTracker)

getByName(t, name) ==
  IF name \in DOMAIN t THEN t ELSE t @@ (name :> NewComponentTracker)

\* the registry and the result once the tracker of the name has been called
getByNameCalled(t, name, r) ==
  [tags |-> [t EXCEPT ![name] = r.ct], ret |-> r.ret,
   failures |-> r.failures, error |-> r.error,
   records |-> r.records, lists |-> r.lists, created |-> TRUE]

TemplateRequireInputTracker_addElement(t, fileName, element, id, names) ==
  IF skippedElements(element.name)
  THEN [tags |-> t, ret |-> "null", failures |-> <<>>, error |-> <<>>,
        records |-> <<>>, lists |-> <<>>, created |-> FALSE]
  ELSE getByNameCalled(getByName(t, element.name), element.name,
         ComponentTracker_addElement(getByName(t, element.name)[element.name],
                                     fileName, element, id, names))

TemplateRequireInputTracker_addComponent(t, name, component, names) ==
  getByNameCalled(getByName(t, name), name,
    ComponentTracker_addComponent(getByName(t, name)[name], component, names))

(***************************************************************************)
(* InputMetadataWalker                                                     *)
(***************************************************************************)
\* requiredness taken from the initializer alone in all-without-defaults mode
NgInput_InitializerWins(opts, fileName, name, pos, args, text, hasInitializer) ==
  [node |-> [fileName |-> fileName, pos |-> pos],
   alias |-> IF Len(args) > 0 /\ args[1].kind = "StringLiteral" THEN args[1].text ELSE name,
   name |-> name,
   match |-> IF text.requiredIf THEN text.expr ELSE <<>>,
   required |-> IF getMode(opts) = ModeAll THEN ~hasInitializer ELSE text.required]

\* the alias argument of the decorator ignored
NgInput_NoAlias(opts, fileName, name, pos, args, text, hasInitializer) ==
  [node |-> [fileName |-> fileName, pos |-> pos],
   alias |-> name,
   name |-> name,
   match |-> IF text.requiredIf THEN text.expr ELSE <<>>,
   required |-> IF text.required THEN TRUE
                ELSE IF getMode(opts) = ModeAll THEN ~hasInitializer
                ELSE FALSE]

\* the IPendingInput visitNgInput pushes.  text is what the two scans of the
\* decorator text find: includes('@required') and requiredExpressionRe
NgInput(opts, fileName, name, pos, args, text, hasInitializer) ==
  [node |-> [fileName |-> fileName, pos |-> pos],
   alias |-> IF Len(args) > 0 /\ args[1].kind = "StringLiteral" THEN args[1].text ELSE name,
   name |-> name,
   match |-> IF text.requiredIf THEN text.expr ELSE <<>>,
   required |-> IF text.required THEN TRUE
                ELSE IF getMode(opts) = ModeAll THEN ~hasInitializer
                ELSE FALSE]

\* this.inputs.map(...) of pushLast: the checks, or the first compile error
RECURSIVE BuildChecks(_, _, _, _)

BuildChecksJoin(c, rest) ==
  IF rest.threw THEN rest
  ELSE [threw |-> FALSE, error |-> <<>>, checks |-> <<c.check>> \o rest.checks]

BuildChecksNext(c, properties, pending, walker, names) ==
  IF c.threw THEN [threw |-> TRUE, error |-> c.error, checks |-> <<>>]
  ELSE BuildChecksJoin(c, BuildChecks(properties, Tail(pending), walker, names))

BuildChecks(properties, pending, walker, names) ==
  IF pending = <<>> THEN [threw |-> FALSE, error |-> <<>>, checks |-> <<>>]
  ELSE BuildChecksNext(createCheck(properties, Head(pending), walker, names),
                       properties, pending, walker, names)

\* a handler that called nothing on the tracker
NoCall == [op |-> "none", name |-> <<>>, ret |-> "none", failures |-> <<>>,
           error |-> <<>>, records |-> <<>>, lists |-> <<>>,
           element |-> <<>>, component |-> <<>>]

\* pushLast once tracker.addComponent has been called: errs.forEach, inputs = []
pushLastAdded(pending, name, component, r) ==
  [threw |-> r.ret = "throw", tags |-> r.tags,
   inputs |-> IF r.ret = "throw" THEN pending ELSE <<>>,
   added |-> [k \in 1..Len(r.failures) |->
                [at |-> r.failures[k].decorator, message |-> r.failures[k].message]],
   call |-> [op |-> "addComponent", name |-> name, ret |-> r.ret,
             failures |-> r.failures, error |-> r.error,
             records |-> r.records, lists |-> r.lists,
             element |-> <<>>, component |-> <<component>>]]

\* pushLast once the checks have been built
pushLastChecks(t, pending, name, properties, b, names) ==
  IF b.threw
  THEN [threw |-> TRUE, tags |-> t, inputs |-> pending, added |-> <<>>,
        call |-> [NoCall EXCEPT !.op = "createCustomMatch", !.ret = "throw",
                                !.error = b.error, !.name = name]]
  ELSE pushLastAdded(pending, name, [properties |-> properties, checks |-> b.checks],
         TemplateRequireInputTracker_addComponent(
           t, name, [properties |-> properties, checks |-> b.checks], names))

\* pushLast declaring only the first buffered input
pushLast_FirstOnly(t, pending, walker, names) ==
  IF Len(pending) = 0
  THEN [threw |-> FALSE, tags |-> t, inputs |-> pending, added |-> <<>>, call |-> NoCall]
  ELSE pushLastChecks(t, pending, names[walker], <<pending[1].name>>,
         BuildChecks(<<pending[1].name>>, <<pending[1]>>, walker, names), names)

\* pushLast: the tags and inputs it leaves, the failures it adds, the call it made
pushLast(t, pending, walker, names) ==
  IF Len(pending) = 0
  THEN [threw |-> FALSE, tags |-> t, inputs |-> pending, added |-> <<>>, call |-> NoCall]
  ELSE pushLastChecks(t, pending, names[walker],
         [k \in 1..Len(pending) |-> pending[k].name],
         BuildChecks([k \in 1..Len(pending) |-> pending[k].name], pending, walker, names),
         names)

\* evals after these element records went through process once more
Evaluated(ev, records) ==
  [k \in 1..Len(ev) |-> ev[k] + Cardinality({j \in 1..Len(records) : records[j].id = k})]

Declared(d, call) ==
  IF call.op = "addComponent"
  THEN Append(d, [name |-> call.name, component |-> call.component[1]])
  ELSE d

Walking == status = "running" /\ phase \in {"top", "template", "members"}

\* Rule.apply: a new walker for the next source file
apply ==
  /\ status = "running" /\ phase = "idle" /\ file < source.files
  /\ file' = file + 1
  /\ phase' = "top"
  /\ inputs' = <<>>
  /\ ruleFailures' = <<>>
  /\ componentName' = [componentName EXCEPT ![file + 1] = UndefinedName]
  /\ last' = [handler |-> "apply", call |-> NoCall, member |-> <<>>]
  /\ UNCHANGED <<source, options, status, tags, nClasses, usages, evals, declared, returned,
                 classNames>>

\* visitClassDeclaration, and visitNgComponent when the class is a component
visitClassDeclaration(isComponent, selector) ==
  /\ Walking /\ nClasses < source.classes
  /\ \E r \in {pushLast(tags, inputs, file, componentName)} :
        /\ tags' = r.tags
        /\ inputs' = r.inputs
        /\ ruleFailures' = ruleFailures \o r.added
        /\ evals' = Evaluated(evals, r.call.records)
        /\ declared' = Declared(declared, r.call)
        /\ returned' = returned \o r.call.failures
        /\ last' = [handler |-> "visitClassDeclaration", call |-> r.call, member |-> <<>>]
        /\ IF r.threw
           THEN /\ status' = "aborted"
                /\ UNCHANGED <<phase, componentName>>
           ELSE /\ status' = status
                /\ phase' = IF isComponent THEN "template" ELSE "members"
                /\ componentName' = IF isComponent
                                    THEN [componentName EXCEPT ![file] = selector]
                                    ELSE componentName
  /\ nClasses' = nClasses + 1
  /\ classNames' = Append(classNames, IF isComponent THEN <<selector>> ELSE <<>>)
  /\ UNCHANGED <<source, options, file, usages>>

\* visitEndOfFileToken
visitEndOfFileToken ==
  /\ Walking
  /\ \E r \in {pushLast(tags, inputs, file, componentName)} :
        /\ tags' = r.tags
        /\ inputs' = r.inputs
        /\ ruleFailures' = ruleFailures \o r.added
        /\ evals' = Evaluated(evals, r.call.records)
        /\ declared' = Declared(declared, r.call)
        /\ returned' = returned \o r.call.failures
        /\ last' = [handler |-> "visitEndOfFileToken", call |-> r.call, member |-> <<>>]
        /\ status' = IF r.threw THEN "aborted" ELSE status
        /\ phase' = IF r.threw THEN phase ELSE "idle"
  /\ UNCHANGED <<source, options, file, componentName, nClasses, usages, classNames>>

\* visitNgInput: one more input member of the class being walked
visitNgInput(args, text, hasInitializer) ==
  /\ status = "running" /\ phase \in {"template", "members"}
  /\ Len(inputs) < source.members
  /\ inputs' = Append(inputs,
       NgInput(options, FileNames[file], InputNames[Len(inputs) + 1],
               10 * nClasses + Len(inputs) + 1, args, text, hasInitializer))
  /\ phase' = "members"
  /\ last' = [handler |-> "visitNgInput", call |-> NoCall,
              member |-> <<[args |-> args, text |-> text, hasInitializer |-> hasInitializer]>>]
  /\ UNCHANGED <<source, options, status, file, componentName, tags, ruleFailures,
                 nClasses, usages, evals, declared, returned, classNames>>

\* the call visitElement made on the tracker and what came of it; iterating
\* over a value that is not an array is a TypeError
ElementCall(element, r, component) ==
  [op |-> "addElement", name |-> element.name, ret |-> r.ret,
   failures |-> r.failures, records |-> r.records, lists |-> r.lists,
   element |-> <<element>>, component |-> component,
   error |-> IF r.ret \in {"null", "undefined"}
             THEN <<[name |-> "TypeError", component |-> <<>>, input |-> "",
                     match |-> <<>>, cause |-> r.ret]>>
             ELSE r.error]

\* TemplateRequireInputsVisitor.visitElement for an element of the template of
\* the component being walked.  An error raised inside the template walk
\* either leaves the run (caught = FALSE) or ends the walk of this template
\* (caught = TRUE)
visitElement(element, caught) ==
  /\ status = "running" /\ phase = "template"
  /\ Len(usages) < MaxUsages
  /\ \E r \in {TemplateRequireInputTracker_addElement(
                 tags, FileNames[file], element, Len(usages) + 1, componentName)} :
        /\ tags' = r.tags
        /\ usages' = IF r.created
                     THEN Append(usages,
                                 ElementRecord(FileNames[file], element, Len(usages) + 1))
                     ELSE usages
        /\ evals' = IF r.created THEN Evaluated(Append(evals, 0), r.records) ELSE evals
        /\ returned' = returned \o r.failures
        /\ last' = [handler |-> "visitElement", member |-> <<>>,
                    call |-> ElementCall(element, r,
                               IF r.records = <<>> THEN <<>>
                               ELSE tags[element.name].component)]
        /\ IF r.ret = "list"
           THEN /\ caught
                /\ ruleFailures' = ruleFailures \o
                     [k \in 1..Len(r.failures) |->
                        [at |-> [fileName |-> FileNames[file], pos |-> element.line],
                         message |-> r.failures[k].message]]
                /\ UNCHANGED <<status, phase>>
           ELSE /\ ruleFailures' = ruleFailures
                /\ status' = IF caught THEN status ELSE "aborted"
                /\ phase' = IF caught THEN "members" ELSE phase
  /\ UNCHANGED <<source, options, file, componentName, inputs, nClasses, declared,
                 classNames>>

\* the decorator texts the next input member of the class can have
MemberTexts ==
  IF Len(inputs) < source.members THEN source.decoratorTexts[Len(inputs) + 1] ELSE {}

Elements ==
  {[name |-> n, inputs |-> i, attrs |-> a, line |-> l] :
     n \in source.elementNames, i \in source.elementInputs,
     a \in source.elementAttrs, l \in source.lines}

Init ==
  /\ source \in Sources
  /\ options \in source.options
  /\ status = "running"
  /\ file = 0
  /\ phase = "idle"
  /\ componentName = [k \in 1..Len(FileNames) |-> UndefinedName]
  /\ inputs = <<>>
  /\ tags = <<>>
  /\ ruleFailures = <<>>
  /\ nClasses = 0
  /\ usages = <<>>
  /\ evals = <<>>
  /\ declared = <<>>
  /\ returned = <<>>
  /\ last = [handler |-> "none", call |-> NoCall, member |-> <<>>]
  /\ classNames = <<>>

Next ==
  \/ apply
  \/ \E s \in source.selectors : visitClassDeclaration(TRUE, s)
  \/ \E p \in source.plainClasses : visitClassDeclaration(p, UndefinedName)
  \/ visitEndOfFileToken
  \/ \E a \in source.decoratorArgs, t \in MemberTexts, h \in source.initializers :
       visitNgInput(a, t, h)
  \/ \E e \in Elements, c \in BOOLEAN : visitElement(e, c)

Spec == Init /\ [][Next]_vars

(***************************************************************************)
(* Properties                                                              *)
(***************************************************************************)

C2_ExactlyOnce ==
  \A id \in 1..Len(usages) :
    /\ evals[id] <= 1
    /\ evals[id] = IF tags[usages[id].element.name].component # <<>> THEN 1 ELSE 0

\* C2: no usage is evaluated more than once.  A usage of a tag without a
\* declaration is not evaluated and waits in the queue.  A usage that is
\* waiting is evaluated only by the addComponent that registers the
\* declaration of its tag, a usage that arrives after the registration is
\* evaluated by its own addElement.  The only usages of a declared tag that
\* are never evaluated are those that were waiting behind a usage whose
\* evaluation raised an expression error during the drain.
C2_AtMostOnce ==
  [][ \A id \in 1..Len(usages') :
        LET u == usages'[id]
            n == u.element.name
            waiting == /\ id <= Len(usages)
                       /\ \E q \in 1..Len(tags[n].elementQueue) : tags[n].elementQueue[q] = u
        IN /\ evals'[id] <= 1
           /\ tags'[n].component = <<>> =>
                /\ evals'[id] = 0
                /\ \E q \in 1..Len(tags'[n].elementQueue) : tags'[n].elementQueue[q] = u
           /\ (tags'[n].component # <<>> /\ evals'[id] = 0) =>
                /\ waiting
                /\ Len(declared') > Len(declared)
                /\ last'.call.name = n /\ last'.call.ret = "throw"
                /\ last'.call.records[Len(last'.call.records)].id < id
           /\ (id <= Len(usages) /\ evals'[id] > evals[id]) =>
                /\ waiting
                /\ Len(declared') > Len(declared) /\ last'.call.name = n
           /\ id > Len(usages) =>
                (evals'[id] = 1 <=> (n \in DOMAIN tags /\ tags[n].component # <<>>)) ]_vars

\* two usages were waiting when the declaration was registered; the first
\* raised an expression error, the second was never evaluated
C2_Witness ==
  /\ last.call.op = "addComponent" /\ last.call.ret = "throw"
  /\ Len(usages) = 2 /\ evals = <<1, 0>>
  /\ tags[usages[2].element.name].component # <<>>
  /\ tags[usages[2].element.name].elementQueue = <<>>

\* C3 as stated: every failure the tracker returns carries the prefix
\* "Component <tag> " and the qualifier " (used in <usage file>:<usage line>)"
\* of the usage that was evaluated.
C3_UsageSiteQualifier ==
  \A k \in 1..Len(last.call.lists) :
    \A j \in 1..Len(last.call.lists[k]) :
      LET m == last.call.lists[k][j].message
          u == last.call.records[k]
      IN /\ SubSeq(m, 1, 3) = <<"Component <", u.element.name, "> ">>
         /\ SubSeq(m, Len(m) - 4, Len(m)) =
              <<" (used in ", u.fileName, ":", u.element.line, ")">>

\* C3: every failure the tracker returns has the message "Component <tag> "
\* + the check's message + a location qualifier, where tag is that of the
\* usage evaluated.  A failure of addComponent draining the queue is
\* qualified " (used in <usage file>:<usage line>)"; a failure of addElement
\* on a resolved tracker is qualified
\* " (declared in <file of the input's decorator>:<position of the decorator>)".
C3_LocationQualifier ==
  \A k \in 1..Len(last.call.lists) :
    \A j \in 1..Len(last.call.lists[k]) :
      LET f == last.call.lists[k][j]
          m == f.message
          u == last.call.records[k]
          checks == last.call.component[1].checks
      IN /\ SubSeq(m, 1, 3) = <<"Component <", u.element.name, "> ">>
         /\ \E i \in 1..Len(checks) :
              /\ checks[i].input.name = f.inputName
              /\ SubSeq(m, 4, Len(m) - 5) =
                   IF checks[i].input.match = <<>>
                   THEN <<"is missing required input '", checks[i].input.alias, "'">>
                   ELSE <<"is missing input '", checks[i].input.alias,
                          "' required when '", checks[i].input.match, "'">>
         /\ SubSeq(m, Len(m) - 4, Len(m)) =
              IF last.call.op = "addComponent"
              THEN <<" (used in ", u.fileName, ":", u.element.line, ")">>
              ELSE <<" (declared in ", f.decorator.fileName, ":", f.decorator.pos, ")">>

\* a usage in b.ts of a component declared in a.ts fails inside addElement
C3_Witness ==
  /\ last.call.op = "addElement" /\ last.call.ret = "list"
  /\ Len(last.call.failures) > 0
  /\ last.call.records[1].fileName = "b.ts"
  /\ last.call.failures[1].decorator.fileName = "a.ts"
  /\ last.call.failures[1].message[7] = " (declared in "

\* C4 as stated: once a tracker has a declaration, no step replaces or
\* clears it.
C4_FirstDeclarationKept ==
  [][ \A n \in DOMAIN tags :
        tags[n].component # <<>> => tags'[n].component = tags[n].component ]_vars

\* C4: a declaration is never cleared, but every addComponent for a tag puts
\* its declaration in place of the one the tracker has, and a usage that
\* arrives later is checked against the declaration registered last.
C4_LastDeclarationInForce ==
  [][ /\ \A n \in DOMAIN tags :
           tags[n].component # <<>> => tags'[n].component # <<>>
      /\ Len(declared') > Len(declared) =>
           /\ tags'[last'.call.name].component = last'.call.component
           /\ declared'[Len(declared')] =
                [name |-> last'.call.name, component |-> last'.call.component[1]]
      /\ (Len(usages') > Len(usages) /\ last'.call.ret = "list") =>
           LET n == last'.call.name
               k == CHOOSE i \in 1..Len(declared) :
                      /\ declared[i].name = n
                      /\ \A j \in (i + 1)..Len(declared) : declared[j].name # n
           IN last'.call.failures =
                process(declared[k].component, usages'[Len(usages')], TRUE,
                        componentName).failures ]_vars

\* foobar was declared twice; a later usage passes under the second
\* declaration and would have failed under the first
C4_Witness ==
  /\ Len(declared) = 2 /\ declared[1].name = declared[2].name
  /\ last.call.op = "addElement" /\ last.call.name = declared[1].name
  /\ last.call.ret = "list" /\ last.call.failures = <<>>
  /\ process(declared[1].component, last.call.records[1], TRUE,
             componentName).failures # <<>>

\* C5: in every evaluation of a usage against a declaration, an input that
\* is required without an expression yields a failure, with the check message
\* "is missing required input '<alias>'" and its own decorator, exactly when
\* its name is not among the names the usage supplies; an input that is not
\* required yields no failure.
C5_StaticRequiredness ==
  \A k \in 1..Len(last.call.lists) :
    LET component == last.call.component[1]
        record == last.call.records[k]
        list == last.call.lists[k]
    IN \A i \in 1..Len(component.checks) :
         LET input == component.checks[i].input
             reported == \E j \in 1..Len(list) : list[j].inputName = input.name
             missing == \E j \in 1..Len(list) :
                          /\ list[j].inputName = input.name
                          /\ list[j].decorator = input.node
                          /\ SubSeq(list[j].message, 4, Len(list[j].message) - 5)
                               = <<"is missing required input '", input.alias, "'">>
             supplied == \E j \in 1..Len(record.properties) :
                           record.properties[j] = input.name
         IN /\ (input.required /\ input.match = <<>>) =>
                 /\ missing <=> ~supplied
                 /\ reported <=> missing
            /\ ~input.required => ~reported

\* a usage that supplies foo and not bar is evaluated against a declaration
\* that requires both: one failure, for bar
C5_Witness ==
  /\ Len(last.call.lists) > 0
  /\ Len(last.call.component[1].checks) = 2
  /\ \A i \in 1..2 : /\ last.call.component[1].checks[i].input.required
                     /\ last.call.component[1].checks[i].input.match = <<>>
  /\ last.call.records[1].properties = <<"foo">>
  /\ Len(last.call.lists[1]) = 1
  /\ last.call.lists[1][1].inputName = "bar"

\* C6: in every evaluation of a usage against a declaration, an input marked
\* '@required if <expr>' yields a failure, with the check message "is missing
\* input '<alias>' required when '<expr>'", exactly when <expr> is true with
\* each input name of the declaration bound to whether the usage supplies it.
C6_ExpressionRequiredness ==
  \A k \in 1..Len(last.call.lists) :
    LET component == last.call.component[1]
        record == last.call.records[k]
        list == last.call.lists[k]
        presence == [j \in 1..Len(component.properties) |->
                       \E n \in 1..Len(record.properties) :
                         record.properties[n] = component.properties[j]]
    IN \A i \in 1..Len(component.checks) :
         LET input == component.checks[i].input
             reported == \E j \in 1..Len(list) : list[j].inputName = input.name
             missing == \E j \in 1..Len(list) :
                          /\ list[j].inputName = input.name
                          /\ list[j].decorator = input.node
                          /\ SubSeq(list[j].message, 4, Len(list[j].message) - 5)
                               = <<"is missing input '", input.alias,
                                   "' required when '", input.match, "'">>
         IN (input.required /\ input.match # <<>>) =>
              /\ missing <=>
                   CallFunction(NewFunction(component.properties, input.match), presence).value
              /\ reported <=> missing

\* bar is '@required if !foo': a usage that supplies bar and not foo gets the
\* failure for bar
C6_Witness ==
  /\ Len(last.call.lists) > 0
  /\ Len(last.call.component[1].checks) = 2
  /\ last.call.component[1].checks[2].input.match = <<"!", "foo">>
  /\ last.call.records[1].properties = <<"bar">>
  /\ \E j \in 1..Len(last.call.lists[1]) : last.call.lists[1][j].inputName = "bar"

\* C7: the input visitNgInput records is required iff its text carries the
\* '@required' marker, or the mode is all-without-defaults and the member
\* has no initializer (any other option is tagged mode).
C7_RequirednessResolution ==
  last.handler = "visitNgInput" =>
    LET member == last.member[1]
        input == inputs[Len(inputs)]
        allWithoutDefaults == Len(options) > 0 /\ options[1] = "all-without-defaults"
    IN input.required <=>
         (member.text.required \/ (allWithoutDefaults /\ ~member.hasInitializer))

\* a marked input with an initializer is required in all-without-defaults mode
C7_Witness ==
  /\ last.handler = "visitNgInput"
  /\ options = <<"all-without-defaults">>
  /\ last.member[1].text.required /\ last.member[1].hasInitializer
  /\ inputs[Len(inputs)].required

\* C8 as stated: an expression error, raised when the declaration is flushed
\* or when a usage is evaluated, names the component the input belongs to,
\* the input, the expression and the cause, and no failure is returned.
C8_ExpressionErrorNamesComponent ==
  (last.call.error # <<>> /\ last.call.error[1].name = "Error") =>
    LET error == last.call.error[1]
        pending == IF last.call.op = "createCustomMatch"
                   THEN inputs
                   ELSE [i \in 1..Len(last.call.component[1].checks) |->
                           last.call.component[1].checks[i].input]
    IN /\ last.call.ret = "throw" /\ last.call.failures = <<>>
       /\ error.component = last.call.name
       /\ \E i \in 1..Len(pending) :
            /\ pending[i].name = error.input
            /\ pending[i].match = error.match /\ error.match # <<>>
       /\ error.cause \in {"SyntaxError", "ReferenceError"}

\* C9: addElement for a tag name of the literal skip list or matching
\* /^ng-.+/ leaves the registry as it is and yields no finding, whatever the
\* registry holds for that name.
C9_SkipList ==
  [][ LET name == last'.call.element[1].name
          literal == \E k \in DOMAIN skippedLiterals : skippedLiterals[k] = name
          pattern == Len(name) > 3 /\ name[1] = "n" /\ name[2] = "g" /\ name[3] = "-"
      IN (last' # last /\ last'.handler = "visitElement" /\ (literal \/ pattern)) =>
           /\ tags' = tags
           /\ usages' = usages /\ evals' = evals
           /\ last'.call.failures = <<>> /\ last'.call.records = <<>>
           /\ returned' = returned /\ ruleFailures' = ruleFailures ]_vars

\* <div> without foo is visited while a declaration registered under the
\* selector div requires foo
C9_Witness ==
  /\ last.handler = "visitElement" /\ last.call.name = Div
  /\ last.call.element[1].inputs = <<>>
  /\ Div \in DOMAIN tags /\ tags[Div].component # <<>>
  /\ \E k \in 1..Len(tags[Div].component[1].checks) :
       tags[Div].component[1].checks[k].kind = "default"

\* C10: addElement on a tracker without a declaration appends exactly that
\* usage to the end of the pending queue, runs no check, leaves the tracker
\* without a declaration and yields no failure.
C10_DeferredUsage ==
  [][ Len(usages') = Len(usages) + 1 =>
        LET record == usages'[Len(usages')]
            name == record.element.name
            before == IF name \in DOMAIN tags THEN tags[name] ELSE NewComponentTracker
        IN before.component = <<>> =>
             /\ record.element = last'.call.element[1]
             /\ record.fileName = FileNames[file]
             /\ record.properties = record.element.inputs \o record.element.attrs
             /\ tags'[name].elementQueue = Append(before.elementQueue, record)
             /\ tags'[name].component = <<>>
             /\ evals' = Append(evals, 0)
             /\ last'.call.records = <<>> /\ last'.call.failures = <<>>
             /\ returned' = returned /\ ruleFailures' = ruleFailures ]_vars

\* a second usage has been appended behind the first
C10_Witness ==
  /\ last.call.op = "addElement" /\ last.call.ret = "undefined"
  /\ Len(tags[last.call.name].elementQueue) = 2
  /\ tags[last.call.name].elementQueue[2].element = last.call.element[1]
  /\ tags[last.call.name].elementQueue[1].element # last.call.element[1]

\* C11 as stated: for every element visitElement hands to the tracker, a
\* skipped tag, a tag without a declaration or a tag with one, addElement
\* returns a list of failures, the iteration over it raises nothing and the
\* walk of the template goes on.
C11_AddElementReturnsList ==
  last.handler = "visitElement" =>
    /\ last.call.ret = "list"
    /\ last.call.error = <<>>
    /\ status = "running" /\ phase = "template"

\* C12 as stated: a flush (a class declaration or the end of the file) with a
\* non-empty input list calls addComponent once with all buffered inputs in
\* visit order and empties the list; with an empty list it calls nothing.
C12_FlushEmitsOnce ==
  [][ (/\ last'.handler \in {"visitClassDeclaration", "visitEndOfFileToken"}
       /\ (nClasses' # nClasses \/ phase' # phase \/ status' # status)) =>
        IF inputs = <<>>
        THEN declared' = declared /\ last'.call.op = "none" /\ tags' = tags
        ELSE /\ Len(declared') = Len(declared) + 1
             /\ last'.call.op = "addComponent"
             /\ declared'[Len(declared')].component.properties =
                  [k \in 1..Len(inputs) |-> inputs[k].name]
             /\ [k \in 1..Len(inputs) |->
                   declared'[Len(declared')].component.checks[k].input] = inputs
             /\ inputs' = <<>> ]_vars

\* C12: a flush with an empty input list calls nothing.  With a non-empty
\* list it calls addComponent once with all buffered inputs in visit order
\* and empties the list, unless an expression of a buffered input does not
\* compile (then the tracker is not called at all) or raises while the queue
\* is drained (then addComponent has been called); in both cases the error
\* leaves the walk with the list as it was.  Nothing but a flush declares.
C12_FlushEmitsOnceUnlessError ==
  [][ /\ (/\ last'.handler \in {"visitClassDeclaration", "visitEndOfFileToken"}
          /\ (nClasses' # nClasses \/ phase' # phase \/ status' # status)) =>
           IF inputs = <<>>
           THEN declared' = declared /\ last'.call.op = "none" /\ tags' = tags
           ELSE IF last'.call.op = "createCustomMatch"
           THEN /\ declared' = declared /\ tags' = tags
                /\ inputs' = inputs /\ status' = "aborted"
                /\ \E k \in 1..Len(inputs) :
                     /\ inputs[k].match # <<>>
                     /\ ~ParseOr(inputs[k].match).ok \/ ParseOr(inputs[k].match).rest # <<>>
           ELSE /\ Len(declared') = Len(declared) + 1
                /\ last'.call.op = "addComponent"
                /\ declared'[Len(declared')].component.properties =
                     [k \in 1..Len(inputs) |-> inputs[k].name]
                /\ [k \in 1..Len(inputs) |->
                      declared'[Len(declared')].component.checks[k].input] = inputs
                /\ IF last'.call.ret = "throw"
                   THEN inputs' = inputs /\ status' = "aborted"
                   ELSE inputs' = <<>>
      /\ declared' # declared =>
           last'.handler \in {"visitClassDeclaration", "visitEndOfFileToken"} ]_vars

\* two inputs were buffered and flushed as one declaration, in visit order
C12_Witness ==
  /\ last.call.op = "addComponent" /\ last.call.ret = "list"
  /\ Len(declared) > 0
  /\ declared[Len(declared)].component.properties = <<"foo", "bar">>
  /\ inputs = <<>>

\* C13 as stated: every input of a declaration is a member of a component
\* class whose selector is the name the declaration was registered under.
C13_DeclaredUnderOwnSelector ==
  \A d \in 1..Len(declared) :
    \A k \in 1..Len(declared[d].component.checks) :
      classNames[declared[d].component.checks[k].input.node.pos \div 10]
        = <<declared[d].name>>

\* C14: the registry keeps one tracker per tag name.  No step removes a
\* tracker or changes the tracker of a name other than the one the tracker
\* call of the step names; a tracker is created only by the first call for
\* its name and starts empty; a later call for the name finds the tracker as
\* the previous call left it.
C14_TagRegistry ==
  [][ LET n == last'.call.name
          called == last'.call.op \in {"addElement", "addComponent"}
                    /\ last'.call.ret # "null"
      IN /\ \A m \in DOMAIN tags : m \in DOMAIN tags' /\ (m # n => tags'[m] = tags[m])
         /\ \A m \in DOMAIN tags' \ DOMAIN tags : m = n /\ called
         /\ ~called => tags' = tags
         /\ (called /\ last'.call.op = "addElement") =>
              LET old == IF n \in DOMAIN tags THEN tags[n] ELSE NewComponentTracker
              IN /\ tags'[n].component = old.component
                 /\ tags'[n].elementQueue =
                      IF old.component # <<>> THEN old.elementQueue
                      ELSE Append(old.elementQueue, usages'[Len(usages')])
         /\ (called /\ last'.call.op = "addComponent") =>
              LET old == IF n \in DOMAIN tags THEN tags[n] ELSE NewComponentTracker
              IN /\ tags'[n].component = last'.call.component
                 /\ Len(last'.call.records) <= Len(old.elementQueue)
                 /\ \A k \in 1..Len(last'.call.records) :
                      last'.call.records[k] = old.elementQueue[k] ]_vars

\* a usage of one tag is added while another tag has its declaration
C14_Witness ==
  /\ last.call.op = "addElement" /\ last.call.ret = "undefined"
  /\ \E m \in DOMAIN tags : m # last.call.name /\ tags[m].component # <<>>
  /\ Len(tags[last.call.name].elementQueue) = 2

\* C15: the alias recorded for an input member is the text of the string
\* literal given as first argument of its decorator, and the member name
\* when there is no argument or the argument is not a string literal; every
\* failure for an input names, after "is missing required input '" or
\* "is missing input '", the alias recorded for it.
C15_AliasSubstitution ==
  /\ last.handler = "visitNgInput" =>
       LET member == last.member[1]
           input == inputs[Len(inputs)]
       IN /\ input.name = InputNames[Len(inputs)]
          /\ input.alias =
               IF member.args # <<>> /\ member.args[1].kind = "StringLiteral"
               THEN member.args[1].text
               ELSE input.name
  /\ \A k \in 1..Len(last.call.lists) :
       \A j \in 1..Len(last.call.lists[k]) :
         LET f == last.call.lists[k][j]
             checks == last.call.component[1].checks
         IN \E i \in 1..Len(checks) :
              /\ checks[i].input.name = f.inputName
              /\ checks[i].input.node = f.decorator
              /\ f.message[4] \in {"is missing required input '", "is missing input '"}
              /\ f.message[5] = checks[i].input.alias

\* the member foo, declared with the alias 'fu', is reported as fu
C15_Witness ==
  /\ Len(last.call.failures) > 0
  /\ last.call.failures[1].inputName = "foo"
  /\ last.call.failures[1].message[5] = "fu"

\* C16: after every step, a tracker that has a declaration has an empty
\* queue, and a tracker that had a declaration before the step still has one.
C16_ResolvedTrackerHasNoQueue ==
  [][ /\ \A n \in DOMAIN tags' :
           tags'[n].component # <<>> => tags'[n].elementQueue = <<>>
      /\ \A n \in DOMAIN tags :
           tags[n].component # <<>> => tags'[n].component # <<>> ]_vars

\* a usage was drained by the declaration of its tag and a second usage of
\* the tag has been evaluated since; the queue is empty
C16_Witness ==
  /\ last.call.op = "addElement" /\ last.call.ret = "list"
  /\ Len(usages) = 2 /\ evals = <<1, 1>>
  /\ usages[1].element.name = last.call.name
  /\ tags[last.call.name].component # <<>>
  /\ tags[last.call.name].elementQueue = <<>>

\* C17: the failures addComponent returns are the failures of the first
\* queued usage, then those of the second, and so on in the order the usages
\* were added; the failures of one usage are in the order of the inputs of
\* the declaration.
C17_DrainOrder ==
  [][ (Len(declared') > Len(declared) /\ last'.call.ret = "list") =>
        LET n == last'.call.name
            D == last'.call.component[1]
            queue == IF n \in DOMAIN tags THEN tags[n].elementQueue ELSE <<>>
            each == [k \in 1..Len(queue) |->
                       process(D, queue[k], FALSE, componentName).failures]
            Position(f) == CHOOSE i \in 1..Len(D.properties) : D.properties[i] = f.inputName
        IN /\ last'.call.failures = Flatten(each)
           /\ \A k \in 1..Len(queue) :
                /\ k > 1 => queue[k - 1].id < queue[k].id
                /\ \A a, b \in 1..Len(each[k]) :
                     a < b => Position(each[k][a]) < Position(each[k][b]) ]_vars

\* two queued usages were drained: the first lacks bar, the second lacks foo,
\* and the failure for bar comes first
C17_Witness ==
  /\ last.call.op = "addComponent" /\ last.call.ret = "list"
  /\ Len(last.call.records) = 2
  /\ Len(last.call.failures) = 2
  /\ last.call.failures[1].inputName = "bar"
  /\ last.call.failures[2].inputName = "foo"

\* C18 as stated: in every evaluation of a usage, the input a failure names
\* is not among the names the usage supplies.
C18_FindingNamesOmittedInput ==
  \A k \in 1..Len(last.call.lists) :
    \A j \in 1..Len(last.call.lists[k]) :
      \A n \in 1..Len(last.call.records[k].properties) :
        last.call.records[k].properties[n] # last.call.lists[k][j].inputName

\* C19 as stated: in every evaluation of a usage, an input that is required
\* without an expression and whose alias is among the names the usage
\* supplies yields no failure.
C19_SuppliedUnderAlias ==
  \A k \in 1..Len(last.call.lists) :
    \A i \in 1..Len(last.call.component[1].checks) :
      LET input == last.call.component[1].checks[i].input
          properties == last.call.records[k].properties
      IN (/\ input.required /\ input.match = <<>>
          /\ \E n \in 1..Len(properties) : properties[n] = input.alias) =>
           \A j \in 1..Len(last.call.lists[k]) :
             last.call.lists[k][j].inputName # input.name

\* C20 as stated: a flush that raises an expression error, while compiling
\* or while draining, leaves the tracker of the tag as it was before.
C20_FailedFlushCommitsNothing ==
  [][ (/\ status = "running" /\ status' = "aborted"
       /\ last'.call.op \in {"createCustomMatch", "addComponent"}) =>
        LET n == last'.call.name
        IN (IF n \in DOMAIN tags' THEN tags'[n] ELSE NewComponentTracker)
             = (IF n \in DOMAIN tags THEN tags[n] ELSE NewComponentTracker) ]_vars

\* C20: a flush that raises because an expression does not compile leaves
\* the registry as it was.  A flush that raises while a buffered usage is
\* evaluated has already committed: the tracker of the tag holds the new
\* declaration and an empty queue, and the other trackers are as before.
\* Either way no failure is returned or added and the input list is kept.
C20_FailedFlushCommitsDeclaration ==
  [][ (/\ status = "running" /\ status' = "aborted"
       /\ last'.call.op \in {"createCustomMatch", "addComponent"}) =>
        LET n == last'.call.name
        IN /\ last'.call.ret = "throw" /\ last'.call.failures = <<>>
           /\ returned' = returned /\ ruleFailures' = ruleFailures
           /\ inputs' = inputs /\ inputs # <<>>
           /\ IF last'.call.op = "createCustomMatch"
              THEN tags' = tags /\ declared' = declared
              ELSE /\ n \in DOMAIN tags /\ tags[n].elementQueue # <<>>
                   /\ tags'[n].elementQueue = <<>>
                   /\ tags'[n].component = last'.call.component
                   /\ last'.call.component[1].properties =
                        [k \in 1..Len(inputs) |-> inputs[k].name]
                   /\ \A m \in DOMAIN tags : m # n => tags'[m] = tags[m] ]_vars

\* the only buffered usage made the drain raise: the declaration is in
\* place, the queue is empty and nothing was returned
C20_Witness ==
  /\ status = "aborted"
  /\ last.call.op = "addComponent" /\ last.call.ret = "throw"
  /\ tags[last.call.name].component = last.call.component
  /\ tags[last.call.name].elementQueue = <<>>
  /\ Len(usages) = 1 /\ returned = <<>>
====
